---- MODULE Spec2Model ----
(***************************************************************************)
(* Model of the node-graph state manager of src/App.js: the React state    *)
(* of App (nodes, selectedId, queryingAI), its localStorage record, the    *)
(* mount effects, the handlers addNode / updateNode / removeNode /         *)
(* onAskAI / exportJSON / importJSON, and the JSON conversions they use.   *)
(*                                                                         *)
(* JavaScript values are tagged records.  Strings are sequences of         *)
(* one-character strings, so that trim and toString are computed.  A JSON  *)
(* text is a sequence of lexical tokens, so that JSON.stringify and        *)
(* JSON.parse are computed and can disagree.                               *)
(***************************************************************************)
EXTENDS Integers, Sequences, FiniteSets, TLC

VARIABLES
    phase,       \* position in the mount sequence of App
    nodes,       \* useState([])      src/App.js:16
    selectedId,  \* useState(null)    src/App.js:17
    queryingAI,  \* useState(false)   src/App.js:18
    storage,     \* localStorage item STORAGE_KEY
    now,         \* the value Date.now() returns
    pending,     \* onAskAI calls suspended at the await, with their node
    alert,       \* what the last handler passed to alert(), if anything
    download,    \* the file the last handler offered for download, if any
    writeFails,  \* how many localStorage.setItem calls have thrown
    steps,       \* how many handler calls the session has made
    last         \* history: the last handler, its input, nodes and selectedId before it;
                 \* for a settled request also its place among those in flight

vars == <<phase, nodes, selectedId, queryingAI, storage, now, pending,
          alert, download, writeFails, steps, last>>

----------------------------------------------------------------------------
(* Bounds of the model. *)

MaxClock == 2
MaxSteps == 3
MaxWriteFails == 1

----------------------------------------------------------------------------
(* JavaScript values. *)

Undefined == [k |-> "undefined"]
Null == [k |-> "null"]
NaN == [k |-> "NaN"]
Num(n) == [k |-> "number", n |-> n]
Str(s) == [k |-> "string", s |-> s]
Obj(f) == [k |-> "object", f |-> f]
Arr(items) == [k |-> "array", items |-> items]

NoFields == [key \in {} |-> Undefined]

\* o.key: a property an object lacks reads as undefined; so does a property
\* of a primitive.
Get(o, key) ==
    IF o.k = "object" /\ key \in DOMAIN o.f THEN o.f[key] ELSE Undefined

\* { ...n, ...patch }
Spread(n, patch) == Obj(patch.f @@ n.f)

\* ToBoolean
Truthy(v) ==
    CASE v.k \in {"undefined", "null", "NaN"} -> FALSE
      [] v.k = "string" -> v.s # <<>>
      [] v.k = "number" -> v.n # 0
      [] OTHER -> TRUE

DigitChar == <<"0", "1", "2", "3", "4", "5", "6", "7", "8", "9">>

\* Number.prototype.toString of a non-negative integer
RECURSIVE Digits(_)
Digits(n) ==
    IF n < 10 THEN <<DigitChar[n + 1]>>
    ELSE Digits(n \div 10) \o <<DigitChar[(n % 10) + 1]>>

\* v + n for a number n: numeric addition, NaN for undefined and NaN,
\* null counts as 0, a string is concatenated with the number's digits.
JSAdd(v, n) ==
    CASE v.k = "number" -> Num(v.n + n)
      [] v.k = "null" -> Num(n)
      [] v.k = "string" -> Str(v.s \o Digits(n))
      [] OTHER -> NaN

IsSpace(c) == c \in {" ", "\t", "\n"}

RECURSIVE TrimStart(_)
TrimStart(s) ==
    IF s # <<>> /\ IsSpace(Head(s)) THEN TrimStart(Tail(s)) ELSE s

RECURSIVE TrimEnd(_)
TrimEnd(s) ==
    IF s # <<>> /\ IsSpace(s[Len(s)]) THEN TrimEnd(SubSeq(s, 1, Len(s) - 1))
    ELSE s

\* A trim that strips the front only.
TrimStartOnly(s) == TrimStart(s)

\* String.prototype.trim
Trim(s) == TrimEnd(TrimStart(s))

----------------------------------------------------------------------------
(* JSON texts, as token sequences. *)

LBracket == [t |-> "["]
RBracket == [t |-> "]"]
LBrace == [t |-> "{"]
RBrace == [t |-> "}"]
Comma == [t |-> ","]
Colon == [t |-> ":"]
Space == [t |-> "ws"]
TNull == [t |-> "null"]
TStr(s) == [t |-> "str", s |-> s]
TNum(n) == [t |-> "num", n |-> n]
TKey(name) == [t |-> "key", name |-> name]

\* The order in which the properties of a node are written.
KeyOrder == <<"id", "content", "x", "y">>

\* JSON.stringify drops the properties whose value is undefined.
WrittenKeys(o) ==
    SelectSeq(KeyOrder, LAMBDA key : key \in DOMAIN o.f /\ o.f[key].k # "undefined")

RECURSIVE SerValue(_, _)
RECURSIVE SerItems(_, _, _)
RECURSIVE SerMembers(_, _, _)

\* JSON.stringify(v, null, pretty ? 2 : undefined) for a value inside a
\* document: NaN and undefined are written as null.
SerValue(v, pretty) ==
    CASE v.k = "array" ->
            IF v.items = <<>> THEN <<LBracket, RBracket>>
            ELSE <<LBracket>> \o SerItems(v.items, 1, pretty)
                 \o (IF pretty THEN <<Space>> ELSE <<>>) \o <<RBracket>>
      [] v.k = "object" ->
            IF WrittenKeys(v) = <<>> THEN <<LBrace, RBrace>>
            ELSE <<LBrace>> \o SerMembers(v, 1, pretty)
                 \o (IF pretty THEN <<Space>> ELSE <<>>) \o <<RBrace>>
      [] v.k = "string" -> <<TStr(v.s)>>
      [] v.k = "number" -> <<TNum(v.n)>>
      [] OTHER -> <<TNull>>

SerItems(items, i, pretty) ==
    IF i > Len(items) THEN <<>>
    ELSE (IF i > 1 THEN <<Comma>> ELSE <<>>)
         \o (IF pretty THEN <<Space>> ELSE <<>>)
         \o SerValue(items[i], pretty)
         \o SerItems(items, i + 1, pretty)

SerMembers(o, i, pretty) ==
    LET keys == WrittenKeys(o) IN
    IF i > Len(keys) THEN <<>>
    ELSE (IF i > 1 THEN <<Comma>> ELSE <<>>)
         \o (IF pretty THEN <<Space>> ELSE <<>>)
         \o <<TKey(keys[i]), Colon>>
         \o (IF pretty THEN <<Space>> ELSE <<>>)
         \o SerValue(o.f[keys[i]], pretty)
         \o SerMembers(o, i + 1, pretty)

\* JSON.stringify(nodes)
Stringify(v) == SerValue(v, FALSE)

\* JSON.stringify(nodes, null, 2)
StringifyPretty(v) == SerValue(v, TRUE)

Parsed(v, p) == [ok |-> TRUE, v |-> v, p |-> p]
SyntaxError(what, p) == [ok |-> FALSE, message |-> [unexpected |-> what, at |-> p]]

RECURSIVE ParseValue(_, _)
RECURSIVE ParseElements(_, _, _)
RECURSIVE ParseMembers(_, _, _)

ParseValue(t, p) ==
    IF p > Len(t) THEN SyntaxError("end of input", p)
    ELSE CASE t[p].t = "str" -> Parsed(Str(t[p].s), p + 1)
           [] t[p].t = "num" -> Parsed(Num(t[p].n), p + 1)
           [] t[p].t = "null" -> Parsed(Null, p + 1)
           [] t[p].t = "[" ->
                IF p + 1 <= Len(t) /\ t[p + 1].t = "]"
                THEN Parsed(Arr(<<>>), p + 2)
                ELSE ParseElements(t, p + 1, <<>>)
           [] t[p].t = "{" ->
                IF p + 1 <= Len(t) /\ t[p + 1].t = "}"
                THEN Parsed(Obj(NoFields), p + 2)
                ELSE ParseMembers(t, p + 1, NoFields)
           [] OTHER -> SyntaxError(t[p].t, p)

ParseElements(t, p, acc) ==
    LET r == ParseValue(t, p) IN
    IF ~r.ok THEN r
    ELSE IF r.p > Len(t) THEN SyntaxError("end of input", r.p)
    ELSE IF t[r.p].t = "," THEN ParseElements(t, r.p + 1, Append(acc, r.v))
    ELSE IF t[r.p].t = "]" THEN Parsed(Arr(Append(acc, r.v)), r.p + 1)
    ELSE SyntaxError(t[r.p].t, r.p)

ParseMembers(t, p, acc) ==
    IF p + 1 > Len(t) THEN SyntaxError("end of input", Len(t) + 1)
    ELSE IF t[p].t # "key" THEN SyntaxError(t[p].t, p)
    ELSE IF t[p + 1].t # ":" THEN SyntaxError(t[p + 1].t, p + 1)
    ELSE LET r == ParseValue(t, p + 2) IN
         IF ~r.ok THEN r
         ELSE IF r.p > Len(t) THEN SyntaxError("end of input", r.p)
         ELSE IF t[r.p].t = ","
              THEN ParseMembers(t, r.p + 1, (t[p].name :> r.v) @@ acc)
         ELSE IF t[r.p].t = "}"
              THEN Parsed(Obj((t[p].name :> r.v) @@ acc), r.p + 1)
         ELSE SyntaxError(t[r.p].t, r.p)

\* JSON.parse(text): whitespace is skipped, one value, nothing after it.
JSONParse(text) ==
    LET t == SelectSeq(text, LAMBDA tok : tok.t # "ws")
        r == ParseValue(t, 1)
    IN  IF ~r.ok THEN r
        ELSE IF r.p <= Len(t) THEN SyntaxError(t[r.p].t, r.p)
        ELSE r

----------------------------------------------------------------------------
(* Program constants and the inputs the handlers are tried with. *)

SpawnMin == 40
OffsetX == 120
OffsetY == 20

\* "(AI had no suggestion)", kept as one unit of text.
Placeholder == <<"(AI had no suggestion)">>

\* Math.random() * 600 and Math.random() * 300, as whole numbers.
RandomX == {0}
RandomY == {0}

\* What the text box hands to onAdd: nothing, or a string.
Texts ==
    { Undefined, Str(<<>>), Str(<<" ", " ">>), Str(<<" ", "a", " ", "b", "\t">>) }

\* What onUpdate and onMove hand to updateNode.
Patches ==
    { Obj([content |-> Str(<<>>)]), Obj([x |-> Num(7), y |-> Num(9)]) }

\* What expandWithAI resolves with, and what it rejects with.
Suggestions == { Str(<<"s">>), Undefined }
Errors == { Obj([message |-> Str(<<"offline">>)]), Str(<<"timeout">>) }

NoFile == [present |-> FALSE]
File(text) == [present |-> TRUE, text |-> text]

\* A saved node, as an earlier session wrote it.
SavedNode ==
    Obj([id |-> Str(<<"5">>), content |-> Str(<<"c">>), x |-> Num(10), y |-> Num(10)])

\* Files the user may pick for import: an empty array, an array whose
\* element has no coordinates, an object, a truncated array, and text that
\* is no JSON value.
ImportFiles ==
    { File(<<LBracket, RBracket>>),
      File(<<LBracket, LBrace, TKey("id"), Colon, TStr(<<"7">>), Comma,
             TKey("content"), Colon, TStr(<<"c">>), RBrace, RBracket>>),
      File(<<LBrace, TKey("id"), Colon, TStr(<<"7">>), RBrace>>),
      File(<<LBracket, LBrace>>),
      File(<<Comma>>) }

\* What localStorage may hold when the page opens: no item, an empty value,
\* text that is no JSON, a saved array, a saved value that is no array.
InitialStorage ==
    { NoFile,
      File(<<>>),
      File(<<LBracket, Comma>>),
      File(Stringify(Arr(<<SavedNode>>))),
      File(<<TNum(5)>>) }

NoAlert == [prefix |-> "none"]

----------------------------------------------------------------------------
(* The state after the first render, and the mount effects. *)

Init ==
    /\ phase = "mount"
    /\ nodes = Arr(<<>>)
    /\ selectedId = Null
    /\ queryingAI = FALSE
    /\ storage \in InitialStorage
    /\ now = 1
    /\ pending = <<>>
    /\ alert = NoAlert
    /\ download = NoFile
    /\ writeFails = 0
    /\ steps = 0
    /\ last = [op |-> "init", arg |-> Null, nodes |-> Arr(<<>>), selectedId |-> Null]

\* The save effect writing the collection of the render before.
SaveEffectStale(value) ==
    \/ /\ storage' = File(Stringify(nodes))
       /\ UNCHANGED writeFails
    \/ /\ writeFails < MaxWriteFails
       /\ writeFails' = writeFails + 1
       /\ UNCHANGED storage

\* The save effect removing the item when setItem throws.
SaveEffectClearingOnFailure(value) ==
    \/ /\ storage' = File(Stringify(value))
       /\ UNCHANGED writeFails
    \/ /\ writeFails < MaxWriteFails
       /\ writeFails' = writeFails + 1
       /\ storage' = NoFile

\* try { localStorage.setItem(STORAGE_KEY, JSON.stringify(value)) } catch ...
\* setItem either stores the text or throws; the throw is only logged.
SaveEffect(value) ==
    \/ /\ storage' = File(Stringify(value))
       /\ UNCHANGED writeFails
    \/ /\ writeFails < MaxWriteFails
       /\ writeFails' = writeFails + 1
       /\ UNCHANGED storage

\* The load effect: a missing or empty item is skipped, text that does not
\* parse is logged, anything that parses goes to setNodes.
LoadEffect ==
    /\ phase = "mount"
    /\ LET r == IF storage.present /\ storage.text # <<>>
                THEN JSONParse(storage.text)
                ELSE [ok |-> FALSE]
       IN  IF r.ok
           THEN nodes' = r.v /\ phase' = "loaded-set"
           ELSE UNCHANGED nodes /\ phase' = "loaded-skip"
    /\ UNCHANGED <<selectedId, queryingAI, storage, now, pending, alert,
                   download, writeFails, steps, last>>

\* The save effect of the first commit: its closure holds the initial
\* nodes, useState([]), whatever the load effect has just queued.
SaveEffectOnMount ==
    /\ phase \in {"loaded-set", "loaded-skip"}
    /\ SaveEffect(Arr(<<>>))
    /\ phase' = IF phase = "loaded-set" THEN "rerender" ELSE "ready"
    /\ UNCHANGED <<nodes, selectedId, queryingAI, now, pending, alert,
                   download, steps, last>>

\* The render that follows the load effect's setNodes, and the save effect
\* it triggers.  Rendering a value that is no array fails in the children,
\* which iterate nodes; the tree is then unmounted and no effect runs.
Rerender ==
    /\ phase = "rerender"
    /\ IF nodes.k = "array"
       THEN SaveEffect(nodes) /\ phase' = "ready"
       ELSE UNCHANGED <<storage, writeFails>> /\ phase' = "crashed"
    /\ UNCHANGED <<nodes, selectedId, queryingAI, now, pending, alert,
                   download, steps, last>>

Ready == phase = "ready"

\* Date.now() moves on.
Tick ==
    /\ now < MaxClock
    /\ now' = now + 1
    /\ UNCHANGED <<phase, nodes, selectedId, queryingAI, storage, pending,
                   alert, download, writeFails, steps, last>>

----------------------------------------------------------------------------
(* The handlers. *)

\* a === b
StrictEq(a, b) == a = b /\ a.k # "NaN"

\* nodes.find((n) => n.id === id)
Find(id) ==
    LET hits == SelectSeq(nodes.items, LAMBDA n : StrictEq(Get(n, "id"), id))
    IN  IF hits = <<>> THEN Undefined ELSE Head(hits)

\* The ids a call can carry: those of the nodes shown, and the id of the
\* first node a session creates, whether that node is still there or not.
Ids ==
    (IF nodes.k = "array"
     THEN { Get(nodes.items[i], "id") : i \in 1..Len(nodes.items) }
     ELSE {})
        \cup { Str(Digits(1)) }

Handled(op, arg) ==
    /\ steps < MaxSteps
    /\ steps' = steps + 1
    /\ last' = [op |-> op, arg |-> arg, nodes |-> nodes, selectedId |-> selectedId]

\* addNode guarded by !text alone.
AddNodeUntrimmedGuard(text, rx, ry) ==
    /\ Ready
    /\ Handled("add", text)
    /\ alert' = NoAlert
    /\ download' = NoFile
    /\ IF ~Truthy(text)
       THEN UNCHANGED <<nodes, selectedId, storage, writeFails>>
       ELSE LET node == Obj([id |-> Str(Digits(now)),
                             content |-> Str(Trim(text.s)),
                             x |-> Num(SpawnMin + rx),
                             y |-> Num(SpawnMin + ry)])
            IN  /\ nodes' = Arr(<<node>> \o nodes.items)
                /\ selectedId' = Get(node, "id")
                /\ SaveEffect(nodes')
    /\ UNCHANGED <<phase, queryingAI, now, pending>>

\* addNode refusing to run while the flag is up.
AddNodeWhileIdle(text, rx, ry) ==
    /\ Ready
    /\ ~queryingAI
    /\ Handled("add", text)
    /\ alert' = NoAlert
    /\ download' = NoFile
    /\ IF ~Truthy(text) \/ ~Truthy(Str(Trim(text.s)))
       THEN UNCHANGED <<nodes, selectedId, storage, writeFails>>
       ELSE LET node == Obj([id |-> Str(Digits(now)),
                             content |-> Str(Trim(text.s)),
                             x |-> Num(SpawnMin + rx),
                             y |-> Num(SpawnMin + ry)])
            IN  /\ nodes' = Arr(<<node>> \o nodes.items)
                /\ selectedId' = Get(node, "id")
                /\ SaveEffect(nodes')
    /\ UNCHANGED <<phase, queryingAI, now, pending>>

AddNode(text, rx, ry) ==
    /\ Ready
    /\ Handled("add", text)
    /\ alert' = NoAlert
    /\ download' = NoFile
    /\ IF ~Truthy(text) \/ ~Truthy(Str(Trim(text.s)))
       THEN UNCHANGED <<nodes, selectedId, storage, writeFails>>
       ELSE LET node == Obj([id |-> Str(Digits(now)),
                             content |-> Str(Trim(text.s)),
                             x |-> Num(SpawnMin + rx),
                             y |-> Num(SpawnMin + ry)])
            IN  /\ nodes' = Arr(<<node>> \o nodes.items)
                /\ selectedId' = Get(node, "id")
                /\ SaveEffect(nodes')
    /\ UNCHANGED <<phase, queryingAI, now, pending>>

\* updateNode putting the patch in place of the node.
UpdateNodeReplacing(id, patch) ==
    /\ Ready
    /\ Handled("update", [id |-> id, patch |-> patch])
    /\ alert' = NoAlert
    /\ download' = NoFile
    /\ nodes' = Arr([i \in 1..Len(nodes.items) |->
                        IF StrictEq(Get(nodes.items[i], "id"), id)
                        THEN patch
                        ELSE nodes.items[i]])
    /\ SaveEffect(nodes')
    /\ UNCHANGED <<phase, selectedId, queryingAI, now, pending>>

UpdateNode(id, patch) ==
    /\ Ready
    /\ Handled("update", [id |-> id, patch |-> patch])
    /\ alert' = NoAlert
    /\ download' = NoFile
    /\ nodes' = Arr([i \in 1..Len(nodes.items) |->
                        IF StrictEq(Get(nodes.items[i], "id"), id)
                        THEN Spread(nodes.items[i], patch)
                        ELSE nodes.items[i]])
    /\ SaveEffect(nodes')
    /\ UNCHANGED <<phase, selectedId, queryingAI, now, pending>>

\* removeNode without its second statement.
RemoveNodeKeepingSelection(id) ==
    /\ Ready
    /\ Handled("remove", id)
    /\ alert' = NoAlert
    /\ download' = NoFile
    /\ nodes' = Arr(SelectSeq(nodes.items, LAMBDA n : ~StrictEq(Get(n, "id"), id)))
    /\ SaveEffect(nodes')
    /\ UNCHANGED <<phase, selectedId, queryingAI, now, pending>>

\* removeNode clearing the selection whatever it is.
RemoveNodeAlwaysDeselecting(id) ==
    /\ Ready
    /\ Handled("remove", id)
    /\ alert' = NoAlert
    /\ download' = NoFile
    /\ nodes' = Arr(SelectSeq(nodes.items, LAMBDA n : ~StrictEq(Get(n, "id"), id)))
    /\ selectedId' = Null
    /\ SaveEffect(nodes')
    /\ UNCHANGED <<phase, queryingAI, now, pending>>

RemoveNode(id) ==
    /\ Ready
    /\ Handled("remove", id)
    /\ alert' = NoAlert
    /\ download' = NoFile
    /\ nodes' = Arr(SelectSeq(nodes.items, LAMBDA n : ~StrictEq(Get(n, "id"), id)))
    /\ selectedId' = IF StrictEq(selectedId, id) THEN Null ELSE selectedId
    /\ SaveEffect(nodes')
    /\ UNCHANGED <<phase, queryingAI, now, pending>>

\* onSelect={(id) => setSelectedId(id)}
Select(id) ==
    /\ Ready
    /\ Handled("select", id)
    /\ alert' = NoAlert
    /\ download' = NoFile
    /\ selectedId' = id
    /\ UNCHANGED <<phase, nodes, queryingAI, storage, now, pending, writeFails>>

\* onAskAI raising the flag before it looks at the node.
AskAIFlagFirst(id) ==
    /\ Ready
    /\ Handled("ask", id)
    /\ alert' = NoAlert
    /\ download' = NoFile
    /\ queryingAI' = TRUE
    /\ LET node == Find(id) IN
       IF ~Truthy(node)
       THEN UNCHANGED pending
       ELSE pending' = Append(pending, node)
    /\ UNCHANGED <<phase, nodes, selectedId, storage, now, writeFails>>

\* The onAskAI prop and onAskAI up to its await: the node is looked up in
\* the nodes of this render and travels with the request.
AskAI(id) ==
    /\ Ready
    /\ Handled("ask", id)
    /\ alert' = NoAlert
    /\ download' = NoFile
    /\ LET node == Find(id) IN
       IF ~Truthy(node)
       THEN UNCHANGED <<queryingAI, pending>>
       ELSE /\ queryingAI' = TRUE
            /\ pending' = Append(pending, node)
    /\ UNCHANGED <<phase, nodes, selectedId, storage, now, writeFails>>

Without(s, i) == SubSeq(s, 1, i - 1) \o SubSeq(s, i + 1, Len(s))

\* onAskAI putting the new node behind the others.
ResolveAIAppending(i, result) ==
    /\ Ready
    /\ i \in 1..Len(pending)
    /\ Handled("resolve", [node |-> pending[i], result |-> result,
                            index |-> i, inFlight |-> Len(pending)])
    /\ alert' = NoAlert
    /\ download' = NoFile
    /\ LET node == pending[i]
           newNode == Obj([id |-> Str(Digits(now)),
                           content |-> IF Truthy(result) THEN result
                                       ELSE Str(Placeholder),
                           x |-> JSAdd(Get(node, "x"), OffsetX),
                           y |-> JSAdd(Get(node, "y"), OffsetY)])
       IN  /\ nodes' = Arr(nodes.items \o <<newNode>>)
           /\ selectedId' = Get(newNode, "id")
           /\ SaveEffect(nodes')
    /\ queryingAI' = FALSE
    /\ pending' = Without(pending, i)
    /\ UNCHANGED <<phase, now>>

\* onAskAI dropping the other requests in flight when one resolves.
ResolveAICancellingOthers(i, result) ==
    /\ Ready
    /\ i \in 1..Len(pending)
    /\ Handled("resolve", [node |-> pending[i], result |-> result,
                            index |-> i, inFlight |-> Len(pending)])
    /\ alert' = NoAlert
    /\ download' = NoFile
    /\ LET node == pending[i]
           newNode == Obj([id |-> Str(Digits(now)),
                           content |-> IF Truthy(result) THEN result
                                       ELSE Str(Placeholder),
                           x |-> JSAdd(Get(node, "x"), OffsetX),
                           y |-> JSAdd(Get(node, "y"), OffsetY)])
       IN  /\ nodes' = Arr(<<newNode>> \o nodes.items)
           /\ selectedId' = Get(newNode, "id")
           /\ SaveEffect(nodes')
    /\ queryingAI' = FALSE
    /\ pending' = <<>>
    /\ UNCHANGED <<phase, now>>

\* onAskAI looking the node up again after its await.
ResolveAIFromCurrent(i, result) ==
    /\ Ready
    /\ i \in 1..Len(pending)
    /\ Handled("resolve", [node |-> pending[i], result |-> result,
                            index |-> i, inFlight |-> Len(pending)])
    /\ alert' = NoAlert
    /\ download' = NoFile
    /\ LET node == IF Truthy(Find(Get(pending[i], "id")))
                   THEN Find(Get(pending[i], "id"))
                   ELSE pending[i]
           newNode == Obj([id |-> Str(Digits(now)),
                           content |-> IF Truthy(result) THEN result
                                       ELSE Str(Placeholder),
                           x |-> JSAdd(Get(node, "x"), OffsetX),
                           y |-> JSAdd(Get(node, "y"), OffsetY)])
       IN  /\ nodes' = Arr(<<newNode>> \o nodes.items)
           /\ selectedId' = Get(newNode, "id")
           /\ SaveEffect(nodes')
    /\ queryingAI' = FALSE
    /\ pending' = Without(pending, i)
    /\ UNCHANGED <<phase, now>>

\* onAskAI after its await, when expandWithAI resolved with result.
ResolveAI(i, result) ==
    /\ Ready
    /\ i \in 1..Len(pending)
    /\ Handled("resolve", [node |-> pending[i], result |-> result,
                            index |-> i, inFlight |-> Len(pending)])
    /\ alert' = NoAlert
    /\ download' = NoFile
    /\ LET node == pending[i]
           newNode == Obj([id |-> Str(Digits(now)),
                           content |-> IF Truthy(result) THEN result
                                       ELSE Str(Placeholder),
                           x |-> JSAdd(Get(node, "x"), OffsetX),
                           y |-> JSAdd(Get(node, "y"), OffsetY)])
       IN  /\ nodes' = Arr(<<newNode>> \o nodes.items)
           /\ selectedId' = Get(newNode, "id")
           /\ SaveEffect(nodes')
    /\ queryingAI' = FALSE
    /\ pending' = Without(pending, i)
    /\ UNCHANGED <<phase, now>>

\* onAskAI without its finally block.
RejectAIWithoutFinally(i, e) ==
    /\ Ready
    /\ i \in 1..Len(pending)
    /\ Handled("reject", [node |-> pending[i], error |-> e,
                           index |-> i, inFlight |-> Len(pending)])
    /\ alert' = [prefix |-> "AI request failed: ",
                 detail |-> IF Truthy(Get(e, "message")) THEN Get(e, "message") ELSE e]
    /\ download' = NoFile
    /\ pending' = Without(pending, i)
    /\ UNCHANGED <<phase, nodes, selectedId, queryingAI, storage, now, writeFails>>

\* onAskAI after its await, when expandWithAI rejected with e.
RejectAI(i, e) ==
    /\ Ready
    /\ i \in 1..Len(pending)
    /\ Handled("reject", [node |-> pending[i], error |-> e,
                           index |-> i, inFlight |-> Len(pending)])
    /\ alert' = [prefix |-> "AI request failed: ",
                 detail |-> IF Truthy(Get(e, "message")) THEN Get(e, "message") ELSE e]
    /\ download' = NoFile
    /\ queryingAI' = FALSE
    /\ pending' = Without(pending, i)
    /\ UNCHANGED <<phase, nodes, selectedId, storage, now, writeFails>>

\* new Blob([JSON.stringify(nodes, null, 2)], { type: "application/json" })
ExportedFile == File(StringifyPretty(nodes))

ExportJSON ==
    /\ Ready
    /\ Handled("export", Null)
    /\ alert' = NoAlert
    /\ download' = ExportedFile
    /\ UNCHANGED <<phase, nodes, selectedId, queryingAI, storage, now, pending,
                   writeFails>>

\* The reader's onload without the Array.isArray test.
ImportOutcomeUnchecked(text) ==
    LET r == JSONParse(text) IN
    IF ~r.ok
    THEN [set |-> FALSE, nodes |-> nodes,
          alert |-> [prefix |-> "Failed to import: ", detail |-> r.message]]
    ELSE [set |-> TRUE, nodes |-> r.v, alert |-> NoAlert]

\* The reader's onload for a file of this text: what nodes become, whether
\* setNodes was called, and what is alerted.
ImportOutcome(text) ==
    LET r == JSONParse(text) IN
    IF ~r.ok
    THEN [set |-> FALSE, nodes |-> nodes,
          alert |-> [prefix |-> "Failed to import: ", detail |-> r.message]]
    ELSE IF r.v.k = "array"
    THEN [set |-> TRUE, nodes |-> r.v, alert |-> NoAlert]
    ELSE [set |-> FALSE, nodes |-> nodes,
          alert |-> [prefix |-> "Invalid file format: expected an array of nodes"]]

\* importJSON: no file, no effect; otherwise the reader's onload.
ImportJSON(file) ==
    /\ Ready
    /\ Handled("import", file)
    /\ download' = NoFile
    /\ IF ~file.present
       THEN alert' = NoAlert /\ UNCHANGED <<nodes, storage, writeFails>>
       ELSE LET o == ImportOutcome(file.text) IN
            /\ alert' = o.alert
            /\ IF o.set
               THEN nodes' = o.nodes /\ SaveEffect(nodes')
               ELSE UNCHANGED <<nodes, storage, writeFails>>
    /\ UNCHANGED <<phase, selectedId, queryingAI, now, pending>>

----------------------------------------------------------------------------
(* Specifications. *)

Mount == LoadEffect \/ SaveEffectOnMount \/ Rerender

Add == \E text \in Texts, rx \in RandomX, ry \in RandomY : AddNode(text, rx, ry)
Update == \E id \in Ids, patch \in Patches : UpdateNode(id, patch)
Remove == \E id \in Ids : RemoveNode(id)
Ask == \E id \in Ids : AskAI(id)
Resolve == \E i \in 1..Len(pending), result \in Suggestions : ResolveAI(i, result)
Reject == \E i \in 1..Len(pending), e \in Errors : RejectAI(i, e)
SelectAny == \E id \in Ids \cup {Null} : Select(id)
Import == \E file \in ImportFiles \cup {NoFile, download} : ImportJSON(file)

\* Everything the page can do.
Next ==
    \/ Mount
    \/ Tick
    \/ Add
    \/ Update
    \/ Remove
    \/ Ask
    \/ Resolve
    \/ Reject
    \/ SelectAny
    \/ ExportJSON
    \/ Import

Spec == Init /\ [][Next]_vars

\* A session that starts with no saved item and uses only add, update,
\* remove and expansion.
InitEmpty == Init /\ storage = NoFile

NextEdit ==
    \/ LoadEffect
    \/ SaveEffectOnMount
    \/ Tick
    \/ Add
    \/ Update
    \/ Remove
    \/ Ask
    \/ Resolve
    \/ Reject

SpecEdit == InitEmpty /\ [][NextEdit]_vars

\* A session in which every request that was issued is settled: a handler
\* runs only while the session has room left for the settlement of each
\* request in flight, and an issued request is settled in the end.
Room(n) == steps + Len(pending) + n <= MaxSteps

Settle == Resolve \/ Reject

NextSettling ==
    \/ Mount
    \/ Tick
    \/ Room(1) /\ Add
    \/ Room(1) /\ Update
    \/ Room(1) /\ Remove
    \/ Room(2) /\ Ask
    \/ Resolve
    \/ Reject
    \/ Room(1) /\ SelectAny
    \/ Room(1) /\ ExportJSON
    \/ Room(1) /\ Import

SpecSettling == Init /\ [][NextSettling]_vars /\ WF_vars(Settle)

----------------------------------------------------------------------------
(* Properties. *)

Shown == nodes.items
Before == last.nodes.items

HasId(items, id) == \E i \in 1..Len(items) : StrictEq(Get(items[i], "id"), id)

\* text is absent, empty or made of whitespace only
Blank(text) ==
    text.k = "undefined" \/ \A i \in 1..Len(text.s) : IsSpace(text.s[i])

\* c is s without its leading and trailing whitespace
IsTrimOf(c, s) ==
    /\ c # <<>> => ~IsSpace(c[1]) /\ ~IsSpace(c[Len(c)])
    /\ \E a \in 0..Len(s) :
          /\ a + Len(c) <= Len(s)
          /\ SubSeq(s, a + 1, a + Len(c)) = c
          /\ \A i \in 1..Len(s) : (i <= a \/ i > a + Len(c)) => IsSpace(s[i])

\* C1: in every state reached from an empty collection by add, update,
\* remove and resolved expansions, the ids of the collection are pairwise
\* distinct, also when two nodes are created at the same clock value.
IdsUnique ==
    \A i, j \in 1..Len(Shown) :
        i # j => Get(Shown[i], "id") # Get(Shown[j], "id")

\* C2: in every state reached by add, update and remove, selectedId is null
\* or the id of a node of the collection.
SelectionValid == selectedId = Null \/ HasId(Shown, selectedId)

\* C2 witness: the selected node was removed while another node stays.
SelectedNodeRemoved ==
    /\ last.op = "remove"
    /\ last.arg = last.selectedId
    /\ HasId(Before, last.arg)
    /\ Shown # <<>>

\* C3: after an import of a text whose top-level value is an array, the
\* collection is the parsed array and selectedId is null.
ImportReplacesAndDeselects ==
    (last.op = "import" /\ last.arg.present /\ JSONParse(last.arg.text).ok
        /\ JSONParse(last.arg.text).v.k = "array")
    => /\ nodes = JSONParse(last.arg.text).v
       /\ selectedId = Null

\* C4, as claimed: remove(id) of the selected id leaves selectedId null and
\* no node of that id; remove(id) of an id no node has changes neither the
\* collection nor the selection.
RemoveContract ==
    last.op = "remove" =>
        /\ last.arg = last.selectedId =>
              selectedId = Null /\ ~HasId(Shown, last.arg)
        /\ ~HasId(Before, last.arg) =>
              nodes = last.nodes /\ selectedId = last.selectedId

\* C4, amended: remove(id) of the selected id leaves selectedId null and no
\* node of that id; remove(id) of an id no node has leaves the collection
\* unchanged, and leaves the selection unchanged unless the selection was
\* that id, in which case it becomes null.
RemoveContractAmended ==
    last.op = "remove" =>
        /\ last.arg = last.selectedId =>
              selectedId = Null /\ ~HasId(Shown, last.arg)
        /\ ~HasId(Before, last.arg) =>
              /\ nodes = last.nodes
              /\ selectedId = IF last.selectedId = last.arg THEN Null
                              ELSE last.selectedId

\* C4 witness: remove was called with an id that no node had and that was
\* the selection.
RemovedDanglingSelection ==
    /\ last.op = "remove"
    /\ last.arg = last.selectedId
    /\ ~HasId(Before, last.arg)
    /\ Before # <<>>

\* C5: add with absent, empty or whitespace-only text changes neither the
\* collection nor the selection.
AddBlankChangesNothing ==
    (last.op = "add" /\ Blank(last.arg))
    => nodes = last.nodes /\ selectedId = last.selectedId

\* C5 witness: add was called with whitespace-only text while a node was
\* selected.
AddedWhitespace ==
    /\ last.op = "add"
    /\ last.arg.k = "string"
    /\ last.arg.s # <<>>
    /\ Blank(last.arg)
    /\ selectedId # Null
    /\ Shown # <<>>

\* C6: add with text that is not blank puts exactly one new node, whose
\* content is the trimmed text, in front of the previous nodes, which stay
\* as they were, and selects it.
AddInsertsAtFront ==
    (last.op = "add" /\ ~Blank(last.arg))
    => /\ Len(Shown) = Len(Before) + 1
       /\ Tail(Shown) = Before
       /\ Get(Head(Shown), "content").k = "string"
       /\ IsTrimOf(Get(Head(Shown), "content").s, last.arg.s)
       /\ selectedId = Get(Head(Shown), "id")

\* C6 witness: a text with surrounding whitespace was added to a collection
\* that held a node.
AddedInFrontOfOthers ==
    /\ last.op = "add"
    /\ ~Blank(last.arg)
    /\ IsSpace(Head(last.arg.s))
    /\ Before # <<>>

\* C7: an import whose text does not parse leaves the collection as it was
\* and alerts the parse error with its message; an import whose text parses
\* to something that is no array leaves the collection as it was and alerts
\* the invalid format.
ImportFailureKeepsCollection ==
    (last.op = "import" /\ last.arg.present) =>
        LET r == JSONParse(last.arg.text) IN
        /\ ~r.ok =>
              /\ nodes = last.nodes
              /\ alert = [prefix |-> "Failed to import: ", detail |-> r.message]
        /\ (r.ok /\ r.v.k # "array") =>
              /\ nodes = last.nodes
              /\ alert = [prefix |-> "Invalid file format: expected an array of nodes"]

\* C7 witness: a text that parses to an object was imported into a
\* collection that held a node.
ImportedNonArray ==
    /\ last.op = "import"
    /\ last.arg.present
    /\ JSONParse(last.arg.text).ok
    /\ JSONParse(last.arg.text).v.k = "object"
    /\ Before # <<>>

\* C8: for every collection the operations reach, importing the file that
\* export produces gives back the same collection, node for node.
ExportImportRoundTrip ==
    (Ready /\ nodes.k = "array")
    => /\ ImportOutcome(ExportedFile.text).set
       /\ ImportOutcome(ExportedFile.text).nodes = nodes

\* C9: when an expansion request resolves, exactly one new node is put in
\* front of the collection, 120 right of and 20 below the node the request
\* was made for, its content the suggestion, or the placeholder when there
\* is none, and it is selected.
ResolveCreatesNode ==
    last.op = "resolve" =>
        LET source == last.arg.node
            result == last.arg.result
            new == Head(Shown)
        IN  /\ Len(Shown) = Len(Before) + 1
            /\ Tail(Shown) = Before
            /\ Get(source, "x").k = "number"
                  => Get(new, "x") = Num(Get(source, "x").n + 120)
            /\ Get(source, "y").k = "number"
                  => Get(new, "y") = Num(Get(source, "y").n + 20)
            /\ (result.k = "string" /\ result.s # <<>>)
                  => Get(new, "content") = result
            /\ result.k = "undefined"
                  => Get(new, "content") = Str(<<"(AI had no suggestion)">>)
            /\ selectedId = Get(new, "id")

\* C9 witness: a request for a node with numeric coordinates resolved with
\* a suggestion while the collection held nodes.
ResolvedWithSuggestion ==
    /\ last.op = "resolve"
    /\ Get(last.arg.node, "x").k = "number"
    /\ last.arg.result.k = "string"
    /\ Before # <<>>

UpdatePatchesOnlyTarget ==
    last.op = "update" =>
        /\ Len(Shown) = Len(Before)
        /\ selectedId = last.selectedId
        /\ \A i \in 1..Len(Before) :
              IF StrictEq(Get(Before[i], "id"), last.arg.id)
              THEN /\ Get(Shown[i], "id") = Get(Before[i], "id")
                   /\ \A key \in {"content", "x", "y"} :
                         Get(Shown[i], key) =
                            IF key \in DOMAIN last.arg.patch.f
                            THEN last.arg.patch.f[key]
                            ELSE Get(Before[i], key)
              ELSE Shown[i] = Before[i]
        /\ ~HasId(Before, last.arg.id) => nodes = last.nodes

\* C15 witness: the content of a node was patched to the empty string while
\* another node was in the collection and a node was selected.
PatchedToEmptyContent ==
    /\ last.op = "update"
    /\ HasId(Before, last.arg.id)
    /\ "content" \in DOMAIN last.arg.patch.f
    /\ last.arg.patch.f["content"] = Str(<<>>)
    /\ \E i \in 1..Len(Before) : ~StrictEq(Get(Before[i], "id"), last.arg.id)
    /\ selectedId # Null

\* C11: the flag is raised in the step that issues a request and lowered
\* in the step that settles one; asking for a node that is not in the
\* collection issues nothing and leaves the flag as it was; and when every
\* issued request is settled in the end, a raised flag is lowered in the end.
FlagLoweredOnEveryPath ==
    /\ [][ /\ Len(pending') > Len(pending) => queryingAI'
           /\ Len(pending') < Len(pending) => ~queryingAI'
           /\ (steps' # steps /\ last'.op = "ask" /\ ~HasId(nodes.items, last'.arg))
                 => (queryingAI' = queryingAI /\ pending' = pending) ]_vars
    /\ [](pending = <<>> => ~queryingAI)
    /\ (queryingAI ~> ~queryingAI)

\* C11 witness: a request was rejected, the flag is down and nothing is in
\* flight.
FlagLoweredAfterReject ==
    /\ last.op = "reject"
    /\ ~queryingAI
    /\ pending = <<>>

\* A step of a handler, and the handlers that call setNodes.
HandlerStep == steps' # steps
Mutations == {"add", "update", "remove", "resolve", "import"}

\* C12: a handler step that changes the collection and whose write does not
\* fail leaves the stored item equal to the serialization of the new
\* collection; a step of select leaves the stored item as it was.
SuccessfulWriteMirrorsCollection ==
    [][ /\ (HandlerStep /\ nodes' # nodes /\ writeFails' = writeFails)
              => (last'.op \in Mutations /\ storage' = File(Stringify(nodes')))
        /\ (HandlerStep /\ last'.op = "select") => storage' = storage ]_vars

\* C12 witness: an import replaced the collection, no write has failed and
\* the stored item is the serialization of the imported collection.
ImportWritten ==
    /\ last.op = "import"
    /\ nodes # last.nodes
    /\ Shown # <<>>
    /\ writeFails = 0
    /\ storage = File(Stringify(nodes))

\* What the handler of the step does to the collection and the selection.
TakesEffect ==
    LET op == last'.op
        arg == last'.arg
        old == nodes.items
        new == nodes'.items
    IN  CASE op \in {"add", "resolve"} ->
                /\ Len(new) = Len(old) + 1
                /\ Tail(new) = old
                /\ selectedId' = Get(Head(new), "id")
          [] op = "update" ->
                /\ Len(new) = Len(old)
                /\ selectedId' = selectedId
                /\ \A i \in 1..Len(old) :
                      IF StrictEq(Get(old[i], "id"), arg.id)
                      THEN \A key \in DOMAIN arg.patch.f :
                              Get(new[i], key) = arg.patch.f[key]
                      ELSE new[i] = old[i]
          [] op = "remove" ->
                /\ ~HasId(new, arg)
                /\ Len(new) = Cardinality({i \in 1..Len(old) :
                                              ~StrictEq(Get(old[i], "id"), arg)})
                /\ selectedId' = IF StrictEq(selectedId, arg) THEN Null ELSE selectedId
          [] op = "import" ->
                /\ nodes' = JSONParse(arg.text).v
                /\ selectedId' = selectedId
          [] OTHER -> FALSE

\* C13: a step whose write fails leaves the stored item as it was and does
\* not stop the page; the handler of that step still takes effect on the
\* collection and the selection, and an effect of the mount leaves them as
\* they were; the stored item changes only in the step of a handler that
\* calls setNodes or in the mount, so nothing is retried; and the next step
\* that changes the collection and writes brings the stale item in line.
FailedWriteIsSwallowed ==
    [][ /\ writeFails' # writeFails =>
              /\ storage' = storage
              /\ phase' # "crashed"
              /\ IF HandlerStep
                 THEN TakesEffect
                 ELSE nodes' = nodes /\ selectedId' = selectedId
        /\ (Ready /\ storage' # storage) =>
              (HandlerStep /\ last'.op \in Mutations)
        /\ (HandlerStep /\ storage # File(Stringify(nodes)) /\ nodes' # nodes
               /\ writeFails' = writeFails)
              => storage' = File(Stringify(nodes')) ]_vars

\* C13 witness: an add put its node in the collection and selected it while
\* its write failed, so the stored item is not the collection.
AddedWithFailedWrite ==
    /\ last.op = "add"
    /\ Len(Shown) = Len(Before) + 1
    /\ selectedId = Get(Head(Shown), "id")
    /\ writeFails = 1
    /\ storage # File(Stringify(nodes))
    /\ storage = File(Stringify(last.nodes))

\* C14: once the load effect has run the collection is a sequence, and it is
\* the empty one when the item was missing, empty or not parseable.
LoadYieldsSequence ==
    phase \in {"loaded-set", "loaded-skip"} =>
        /\ nodes.k = "array"
        /\ (~storage.present \/ storage.text = <<>> \/ ~JSONParse(storage.text).ok)
              => nodes = Arr(<<>>)

\* C18: the flag is up whenever a request is in flight.
FlagCoversInFlight == pending # <<>> => queryingAI

\* C19: while no handler has run, a collection that was loaded from the
\* stored item is what the stored item holds.
StartupKeepsSavedWork ==
    (steps = 0 /\ phase # "mount" /\ nodes.k = "array" /\ nodes.items # <<>>) =>
        /\ storage.present
        /\ JSONParse(storage.text).ok
        /\ JSONParse(storage.text).v = nodes

\* C16: while a request is in flight add, update, remove, select and import
\* can still run and change the page, and when the request resolves the
\* collection is the new node followed by the collection as it was just
\* before the resolution, whatever was done to it since the request was
\* issued.
EditsSurviveExpansion ==
    /\ (pending # <<>> /\ steps < MaxSteps) =>
          /\ ENABLED (Add /\ nodes' # nodes)
          /\ ENABLED Update
          /\ ENABLED (Import /\ nodes' # nodes)
          /\ ENABLED (SelectAny /\ selectedId' # selectedId)
          /\ Shown # <<>> => ENABLED (Remove /\ nodes' # nodes)
    /\ last.op = "resolve" =>
          /\ Shown # <<>>
          /\ Tail(Shown) = Before

\* C16 witness: the content of the source node was edited while its request
\* was in flight, and the edited node follows the new node.
EditedInFlightKept ==
    /\ last.op = "resolve"
    /\ \E i \in 1..Len(Before) :
          /\ StrictEq(Get(Before[i], "id"), Get(last.arg.node, "id"))
          /\ Get(Before[i], "content") # Get(last.arg.node, "content")
          /\ Len(Shown) > i
          /\ Shown[i + 1] = Before[i]

SourceGone == \A i \in 1..Len(Before) : Before[i] # last.arg.node

\* C20: a request carries the node as it is in the collection when the
\* request is issued and nothing changes it in flight; when it resolves
\* after the source node was moved, edited, removed or replaced, a node is
\* still created, 120 right of and 20 below the node that was carried.
ExpansionUsesIssuedSource ==
    /\ [][ /\ Len(pending') > Len(pending) =>
                 \E k \in 1..Len(nodes.items) :
                    /\ StrictEq(Get(nodes.items[k], "id"), last'.arg)
                    /\ pending' = Append(pending, nodes.items[k])
           /\ Len(pending') <= Len(pending) =>
                 \/ pending' = pending
                 \/ \E i \in 1..Len(pending) :
                       /\ pending' = Without(pending, i)
                       /\ last'.arg.node = pending[i] ]_vars
    /\ []((last.op = "resolve" /\ SourceGone) =>
             /\ Len(Shown) = Len(Before) + 1
             /\ Get(last.arg.node, "x").k = "number" =>
                   Get(Head(Shown), "x") = Num(Get(last.arg.node, "x").n + OffsetX)
             /\ Get(last.arg.node, "y").k = "number" =>
                   Get(Head(Shown), "y") = Num(Get(last.arg.node, "y").n + OffsetY))

\* C20 witness: the source node was moved while its request was in flight
\* and the new node lies by the place the source had when the request was
\* issued.
ResolvedAfterMove ==
    /\ last.op = "resolve"
    /\ Get(last.arg.node, "x").k = "number"
    /\ \E i \in 1..Len(Before) :
          /\ StrictEq(Get(Before[i], "id"), Get(last.arg.node, "id"))
          /\ Get(Before[i], "x") # Get(last.arg.node, "x")
    /\ Get(Head(Shown), "x") = Num(Get(last.arg.node, "x").n + OffsetX)

====
